---- MODULE Spec2Model ----
(***************************************************************************)
(* Model of the Qualcomm root clock generator driver                       *)
(* (drivers/clk/qcom/clk-rcg2.c) and of the block detection loop of the    *)
(* Zynq on-chip memory driver (arch/arm/mach-zynq/zynq_ocm.c).             *)
(*                                                                         *)
(* A 32-bit register value is the set of its set bit positions, so that    *)
(* the C operators &, |, ~, << and >> are exact: x & y is the              *)
(* intersection, x | y the union, ~x the complement in 0..31.              *)
(*                                                                         *)
(* A call of a clk_ops callback runs from pc = "idle" to pc = "done"; the  *)
(* variables op, arg, f, ret, wlog, count, polls, delays, warns, clearAt,  *)
(* ioerr, fault, hw, given, p and p_rate describe the call in progress or  *)
(* just finished, and Return hands the result to the caller.  programmed   *)
(* remembers the table entry of the last rate change that returned 0.      *)
(*                                                                         *)
(* ocm_config, smp, trampoline_code_size, ocm_i, curr and res are the      *)
(* state of zynq_ocm_probe; ocm_i is its loop variable i.                  *)
(***************************************************************************)
EXTENDS Integers, Sequences, FiniteSets, TLC

\* ------------------------------------------------------------ bounds
\* set_rate and find_freq are called with the rates 0..MaxRate
MaxRate == 5
\* recalc_rate is called with the parent rates 0..MaxParentRate
MaxParentRate == 4
\* find_freq is run on the tables of at most MaxTblLen entries with the
\* frequencies 1..MaxFreq
MaxTblLen == 3
MaxFreq == 4
\* calc_rate is run on the rates 0..MaxCalcRate, m and n in 0..MaxMN and
\* hid_div in 0..MaxHidDiv
MaxCalcRate == 16
MaxMN == 3
MaxHidDiv == 4

\* ------------------------------------------------------------ u32 words
Word == 0..31

\* the bits of a number 0 <= x < 2^31
Bits(x) == {i \in 0..30 : (x \div 2^i) % 2 = 1}

\* a C int converted to u32 (two's complement)
ToU32(x) == IF x >= 0 THEN Bits(x) ELSE Word \ Bits(-x - 1)

RECURSIVE ValFrom(_, _)
ValFrom(s, i) == IF i > 30 THEN 0
                 ELSE (IF i \in s THEN 2^i ELSE 0) + ValFrom(s, i + 1)
\* the number a word with bit 31 clear stands for
Val(s) == ValFrom(s, 0)

Not(s) == Word \ s
Shl(s, k) == {i + k : i \in s} \cap Word
Shr(s, k) == {i - k : i \in s} \cap Word
BIT(n) == {n}
\* BIT(w) - 1
LowMask(w) == {i \in Word : i < w}
AllOnes == Word

\* the value of an int returned through u8
ToU8(x) == x % 256

\* ------------------------------------------------------------ registers
CMD_UPDATE == BIT(0)
CMD_ROOT_OFF == BIT(31)
CFG_SRC_DIV_SHIFT == 0
CFG_SRC_SEL_SHIFT == 8
CFG_SRC_SEL_MASK == Shl(Bits(7), CFG_SRC_SEL_SHIFT)
CFG_MODE_SHIFT == 12
CFG_MODE_MASK == Shl(Bits(3), CFG_MODE_SHIFT)
CFG_MODE_DUAL_EDGE == Shl(Bits(2), CFG_MODE_SHIFT)

RegNames == {"CMD", "CFG", "M", "N", "D"}

EINVAL == 22
\* the errors a failing regmap access returns (-EIO, -EBUSY)
RegmapErrs == {-5, -16}
\* the count of the wait loop of update_config
PollCount == 500

\* ------------------------------------------------------------ device data
\* struct freq_tbl; a table ends with the entry of freq 0
Entry(fr, s, h, mm, nn) == [freq |-> fr, src |-> s, pre_div |-> h, m |-> mm, n |-> nn]
Sentinel == Entry(0, 0, 0, 0, 0)
\* a NULL freq_tbl pointer
NullTbl == << >>

TblA == << Entry(2, 0, 0, 0, 0), Entry(4, 1, 3, 1, 2), Sentinel >>
TblB == << Entry(3, 1, 33, 0, 0), Entry(5, 0, 2, 1, 3), Sentinel >>
TblEmpty == << Sentinel >>

\* struct clk_rcg2 and the parents the clock framework knows
Rcg(mw, hw_, pm, tbl) == [mnd_width |-> mw, hid_width |-> hw_, parent_map |-> pm, freq_tbl |-> tbl]
NoTblDevice == Rcg(8, 5, <<0>>, NullTbl)
Devices == { Rcg(8, 5, <<0, 5>>, TblA),
             Rcg(0, 5, <<0, 5>>, TblA),
             Rcg(8, 5, <<2, 9>>, TblB),
             NoTblDevice,
             Rcg(0, 5, <<3>>, TblEmpty) }

\* register contents the hardware may hold when the driver attaches
RegFile(c, g, mm, nn, dd) ==
    [r \in RegNames |-> CASE r = "CMD" -> c
                           [] r = "CFG" -> g
                           [] r = "M" -> mm
                           [] r = "N" -> nn
                           [] r = "D" -> dd]
RegFiles == { RegFile({}, {}, {}, {}, {}),
              RegFile(CMD_ROOT_OFF, AllOnes, {}, AllOnes, AllOnes) }

VARIABLES rcg, regmap, pc, op, arg, f, ret, wlog, count, polls, delays, warns,
          clearAt, ioerr, fault, hw,
          given, p, p_rate, programmed,
          ocm_config, smp, trampoline_code_size, ocm_i, curr, res

vars == <<rcg, regmap, pc, op, arg, f, ret, wlog, count, polls, delays, warns,
          clearAt, ioerr, fault, hw, given, p, p_rate, programmed,
          ocm_config, smp, trampoline_code_size, ocm_i, curr, res>>

\* what a call is given besides arg: its other arguments and the answers of
\* the clock framework
callvars == <<given>>
\* the outputs *p and *p_rate of determine_rate
outvars == <<p, p_rate>>
\* the table entry the last rate change that returned 0 programmed, the
\* sentinel when there was none or a later rate change did not return 0
histvars == <<programmed>>
\* the state of zynq_ocm_probe
probevars == <<ocm_config, smp, trampoline_code_size, ocm_i, curr, res>>

\* what the wait loop of update_config leaves
loopvars == <<count, polls, delays, warns, clearAt, hw>>

PM(i) == rcg.parent_map[i + 1]
num_parents == Len(rcg.parent_map)

\* ------------------------------------------------------------ regmap
\* regmap_update_bits: read-modify-write of the bits of mask
UpdateBits(old, mask, val) == (old \ mask) \cup (val \cap mask)

\* a write to reg the call tried, and whether it succeeded
Wrote(reg, succeeded) == [reg |-> reg, ok |-> succeeded]

\* ------------------------------------------------------------ initial state
NoOracle == [clearK |-> 0, failJ |-> 0]

\* between calls: nothing given
NoInputs == [parent_rate |-> 0, index |-> 0, clk_flags |-> {}, rates |-> << >>]

\* ------------------------------------------------------------ zynq_ocm
ZYNQ_OCM_BLOCK_SIZE == 65536
ZYNQ_OCM_BLOCKS == 4

\* A 32-bit address is hi * ZYNQ_OCM_BLOCK_SIZE + lo, with hi and lo in
\* 0 .. 2^16 - 1.
Addr(h, l) == [hi |-> h, lo |-> l]
ZYNQ_OCM_HIGHADDR == Addr(65532, 0)
ZYNQ_OCM_LOWADDR == Addr(0, 0)

\* a + n in 32 bits, for 0 <= n < 2^16
AddrPlus(a, n) ==
    Addr((a.hi + (a.lo + n) \div ZYNQ_OCM_BLOCK_SIZE) % 2^16,
         (a.lo + n) % ZYNQ_OCM_BLOCK_SIZE)

\* struct resource res[ZYNQ_OCM_BLOCKS] as devm_kzalloc returns it
ZeroRes == [k \in 0..(ZYNQ_OCM_BLOCKS - 1) |->
               [start |-> ZYNQ_OCM_LOWADDR, end |-> ZYNQ_OCM_LOWADDR, flags |-> {}]]

\* zynq_ocm_probe is not running
NoProbe == /\ ocm_config = {}
           /\ smp = FALSE
           /\ trampoline_code_size = 0
           /\ ocm_i = 0
           /\ curr = 0
           /\ res = ZeroRes

NoCall == /\ pc = "idle"
          /\ op = "none"
          /\ arg = 0
          /\ f = Sentinel
          /\ ret = 0
          /\ wlog = << >>
          /\ count = 0
          /\ polls = 0
          /\ delays = 0
          /\ warns = 0
          /\ clearAt = 0
          /\ ioerr = 0
          /\ fault = FALSE
          /\ hw = NoOracle
          /\ given = NoInputs
          /\ p = << >>
          /\ p_rate = << >>

Init == /\ rcg \in Devices
        /\ regmap \in RegFiles
        /\ NoCall
        /\ NoProbe
        /\ programmed = Sentinel

\* a call starts: what the last call left is cleared
BeginWith(o, a, in) ==
    /\ pc = "idle"
    /\ op' = o
    /\ arg' = a
    /\ count' = 0
    /\ polls' = 0
    /\ delays' = 0
    /\ warns' = 0
    /\ clearAt' = 0
    /\ hw' = NoOracle
    /\ given' = in
    /\ UNCHANGED probevars

Begin(o, a) == BeginWith(o, a, NoInputs)

\* the call has returned and its caller has taken the result
Return ==
    /\ pc = "done"
    /\ pc' = "idle"
    /\ op' = "none"
    /\ arg' = 0
    /\ f' = Sentinel
    /\ ret' = 0
    /\ wlog' = << >>
    /\ count' = 0
    /\ polls' = 0
    /\ delays' = 0
    /\ warns' = 0
    /\ clearAt' = 0
    /\ ioerr' = 0
    /\ fault' = FALSE
    /\ hw' = NoOracle
    /\ given' = NoInputs
    /\ p' = << >>
    /\ p_rate' = << >>
    /\ UNCHANGED <<rcg, regmap, probevars, histvars>>

\* ------------------------------------------------------------ is_enabled
\* the value clk_rcg2_is_enabled returns for a command register value
IsEnabledVal(cmd) == IF (cmd \cap CMD_ROOT_OFF) # {} THEN 1 ELSE 0

clk_rcg2_is_enabled ==
    /\ Begin("is_enabled", 0)
    /\ \E e \in {0} \cup RegmapErrs :
          /\ ioerr' = e
          /\ ret' = IF e # 0 THEN e ELSE IsEnabledVal(regmap["CMD"])
    /\ pc' = "done"
    /\ wlog' = << >>
    /\ fault' = FALSE
    /\ UNCHANGED <<rcg, regmap, f, outvars, histvars>>

\* ------------------------------------------------------------ get_parent
\* the loop of clk_rcg2_get_parent over the parent map, from index i
RECURSIVE ParentFrom(_, _)
RECURSIVE ParentFromDefault0(_, _)
\* variant: parent 0 is reported when no entry of the map matches
ParentFromDefault0(sel, i) ==
    IF i >= num_parents THEN 0
    ELSE IF sel = PM(i) THEN i
    ELSE ParentFromDefault0(sel, i + 1)

ParentFrom(sel, i) ==
    IF i >= num_parents THEN -EINVAL
    ELSE IF sel = PM(i) THEN i
    ELSE ParentFrom(sel, i + 1)

\* the parent-select field of a config register value
SrcSel(cfg) == Val(Shr(cfg \cap CFG_SRC_SEL_MASK, CFG_SRC_SEL_SHIFT))

GetParentVal(cfg) == ParentFrom(SrcSel(cfg), 0)

clk_rcg2_get_parent ==
    /\ Begin("get_parent", 0)
    /\ \E e \in {0} \cup RegmapErrs :
          /\ ioerr' = e
          /\ ret' = ToU8(IF e # 0 THEN e ELSE GetParentVal(regmap["CFG"]))
    /\ pc' = "done"
    /\ wlog' = << >>
    /\ fault' = FALSE
    /\ UNCHANGED <<rcg, regmap, f, outvars, histvars>>

\* ------------------------------------------------------------ calc_rate
\* do_div(tmp, n) with n = 0
DivFault(mode, n) == mode # 0 /\ n = 0

\* variant: the pre-divider stage without the factor 2
calc_rate_nodouble(rate, m, n, mode, hid_div) ==
    LET r1 == IF hid_div # 0 THEN rate \div (hid_div + 1) ELSE rate
    IN  IF mode # 0 THEN (r1 * m) \div n ELSE r1

\* calc_rate, where its division is defined
calc_rate(rate, m, n, mode, hid_div) ==
    LET r1 == IF hid_div # 0 THEN (rate * 2) \div (hid_div + 1) ELSE rate
    IN  IF mode # 0 THEN (r1 * m) \div n ELSE r1

\* what a call of calc_rate may return: anything of a division by zero
CalcRateResults(rate, m, n, mode, hid_div) ==
    IF DivFault(mode, n)
    THEN {0, rate}
    ELSE {calc_rate(rate, m, n, mode, hid_div)}

\* ------------------------------------------------------------ recalc_rate
\* what an uninitialised u32 may hold when the read that should set it fails
UninitWords == { {}, AllOnes }

\* the arguments clk_rcg2_recalc_rate hands to calc_rate, from the words it
\* has in cfg, m and n after the reads
RecalcM(mw) == IF rcg.mnd_width # 0 THEN Val(mw \cap LowMask(rcg.mnd_width)) ELSE 0
\* variant: n += m is left out
RecalcNNoAdd(mw, nw) ==
    IF rcg.mnd_width # 0
    THEN Val(Not(nw) \cap LowMask(rcg.mnd_width))
    ELSE 0
RecalcN(mw, nw) ==
    IF rcg.mnd_width # 0
    THEN Val(Not(nw) \cap LowMask(rcg.mnd_width)) + RecalcM(mw)
    ELSE 0
RecalcMode(cfg) ==
    IF rcg.mnd_width # 0
    THEN Val(Shr(cfg \cap CFG_MODE_MASK, CFG_MODE_SHIFT))
    ELSE 0
RecalcHidDiv(cfg) == Val(Shr(cfg, CFG_SRC_DIV_SHIFT) \cap LowMask(rcg.hid_width))

clk_rcg2_recalc_rate ==
    /\ \E parent_rate \in 0..MaxParentRate : Begin("recalc_rate", parent_rate)
    /\ \E failed \in SUBSET {"CFG", "M", "N"} :
       \E cfg \in IF "CFG" \in failed THEN UninitWords ELSE {regmap["CFG"]} :
          LET mw == IF "M" \in failed THEN {} ELSE regmap["M"]
              nw == IF "N" \in failed THEN {} ELSE regmap["N"]
          IN  /\ ioerr' = IF failed = {} THEN 0 ELSE -5
              /\ fault' = DivFault(RecalcMode(cfg), RecalcN(mw, nw))
              /\ ret' \in CalcRateResults(arg', RecalcM(mw), RecalcN(mw, nw),
                                          RecalcMode(cfg), RecalcHidDiv(cfg))
    /\ pc' = "done"
    /\ wlog' = << >>
    /\ UNCHANGED <<rcg, regmap, f, outvars, histvars>>

\* ------------------------------------------------------------ find_freq
RECURSIVE FindFrom(_, _, _)
RECURSIVE FindFromStrict(_, _, _)
\* variant: the comparison is rate < f->freq
FindFromStrict(tbl, i, rate) ==
    IF tbl[i].freq = 0 THEN 0
    ELSE IF rate < tbl[i].freq THEN i
    ELSE FindFromStrict(tbl, i + 1, rate)

FindFrom(tbl, i, rate) ==
    IF tbl[i].freq = 0 THEN 0
    ELSE IF rate <= tbl[i].freq THEN i
    ELSE FindFrom(tbl, i + 1, rate)

\* find_freq: the position (from 1) of the entry returned, 0 for NULL
find_freq(tbl, rate) == IF tbl = NullTbl THEN 0 ELSE FindFrom(tbl, 1, rate)

\* ------------------------------------------------------------ determine_rate
\* The clock framework answers three questions of _freq_tbl_determine_rate:
\* the flags of the clock, the parent at an index (a parent is named by its
\* index) and the current rate of a parent (given.rates, one rate a parent).
CLK_SET_RATE_PARENT == "CLK_SET_RATE_PARENT"
clk_get_parent_by_index(index) == index
clk_get_rate(parent) == given'.rates[parent + 1]

\* the current rates the parents may have: each 0 or MaxParentRate
ParentRates == [1..num_parents -> {0, MaxParentRate}]

\* do_div(tmp, f->m) with f->m = 0
DetDivFault(e) == e.n # 0 /\ e.m = 0

\* the parent rate asked for when the rate may propagate to the parent
DetParentRate(rate, e) ==
    LET r1 == IF e.pre_div # 0 THEN (rate \div 2) * (e.pre_div + 1) ELSE rate
    IN  IF e.n # 0 THEN (r1 * e.n) \div e.m ELSE r1

\* ... anything when the division is by zero
DetParentRateResults(rate, e) ==
    IF DetDivFault(e) THEN {0, rate} ELSE {DetParentRate(rate, e)}

\* variant: the rate asked for is returned
DetRetRequested(rate, e) == rate

\* return f->freq
DetRet(rate, e) == e.freq

\* _freq_tbl_determine_rate on the table of the device
clk_rcg2_determine_rate ==
    \E rate \in 0..MaxRate, flags \in {{}, {CLK_SET_RATE_PARENT}} :
    \E rates \in IF flags = {} THEN ParentRates ELSE {<< >>} :
        /\ BeginWith("determine_rate", rate,
                     [NoInputs EXCEPT !.clk_flags = flags, !.rates = rates])
        /\ LET k == find_freq(rcg.freq_tbl, rate)
               e == rcg.freq_tbl[k]
           IN  IF k = 0
               THEN /\ ret' = -EINVAL
                    /\ fault' = FALSE
                    /\ UNCHANGED <<f, p, p_rate>>
               ELSE /\ f' = e
                    /\ p' = << clk_get_parent_by_index(e.src) >>
                    /\ IF CLK_SET_RATE_PARENT \in flags
                       THEN /\ fault' = DetDivFault(e)
                            /\ \E r \in DetParentRateResults(rate, e) : p_rate' = << r >>
                       ELSE /\ fault' = FALSE
                            /\ p_rate' = << clk_get_rate(clk_get_parent_by_index(e.src)) >>
                    /\ ret' = DetRet(rate, e)
        /\ pc' = "done"
        /\ ioerr' = 0
        /\ wlog' = << >>
        /\ UNCHANGED <<rcg, regmap, histvars>>

\* ------------------------------------------------------------ set_rate
\* fractional mode is programmed for the entry
Fractional(e) == rcg.mnd_width # 0 /\ e.n # 0

\* the words and masks __clk_rcg2_set_rate writes
MVal(e) == ToU32(e.m)
NVal(e) == Not(ToU32(e.n - e.m))
DVal(e) == Not(ToU32(e.n))
\* variant: the whole register is written
MndMaskAll == AllOnes
MndMask == LowMask(rcg.mnd_width)
\* variant: the mode bits are left out of the mask
CfgMaskNoMode == LowMask(rcg.hid_width) \cup CFG_SRC_SEL_MASK
CfgMask == LowMask(rcg.hid_width) \cup CFG_SRC_SEL_MASK \cup CFG_MODE_MASK
\* variant: the parent of the index argument is selected
CfgValFromIndex(e) == Shl(ToU32(e.pre_div), CFG_SRC_DIV_SHIFT)
                      \cup Shl(ToU32(PM(given.index)), CFG_SRC_SEL_SHIFT)
                      \cup (IF Fractional(e) THEN CFG_MODE_DUAL_EDGE ELSE {})
CfgVal(e) == Shl(ToU32(e.pre_div), CFG_SRC_DIV_SHIFT)
             \cup Shl(ToU32(PM(e.src)), CFG_SRC_SEL_SHIFT)
             \cup (IF Fractional(e) THEN CFG_MODE_DUAL_EDGE ELSE {})

\* variant: the result of the lookup is not tested, and the entry the scan
\* stopped at is programmed
SetRateStartNoCheck(o, rate, in) ==
    /\ BeginWith(o, rate, in)
    /\ f' = IF find_freq(rcg.freq_tbl, rate) = 0
            THEN Sentinel
            ELSE rcg.freq_tbl[find_freq(rcg.freq_tbl, rate)]
    /\ pc' = "CFG"
    /\ ioerr' = 0
    /\ wlog' = << >>
    /\ fault' = FALSE
    /\ programmed' = Sentinel
    /\ UNCHANGED <<rcg, regmap, ret, outvars>>

\* the start of __clk_rcg2_set_rate: the table lookup
SetRateStart(o, rate, in) ==
    /\ BeginWith(o, rate, in)
    /\ LET i == find_freq(rcg.freq_tbl, rate)
       IN  IF i = 0
           THEN /\ ret' = -EINVAL
                /\ pc' = "done"
                /\ UNCHANGED f
           ELSE /\ f' = rcg.freq_tbl[i]
                /\ pc' = IF Fractional(rcg.freq_tbl[i]) THEN "M" ELSE "CFG"
                /\ UNCHANGED ret
    /\ ioerr' = 0
    /\ wlog' = << >>
    /\ fault' = FALSE
    /\ programmed' = Sentinel
    /\ UNCHANGED <<rcg, regmap, outvars>>

\* clk_rcg2_set_rate called with a parent rate of ParentRateArgs
SetRate(ParentRateArgs) ==
    \E rate \in 0..MaxRate, parent_rate \in ParentRateArgs :
        SetRateStart("set_rate", rate, [NoInputs EXCEPT !.parent_rate = parent_rate])

\* clk_rcg2_set_rate_and_parent called with a parent rate of ParentRateArgs
\* and the index of any parent
SetRateAndParent(ParentRateArgs) ==
    \E rate \in 0..MaxRate, parent_rate \in ParentRateArgs,
       index \in 0..(num_parents - 1) :
        SetRateStart("set_rate_and_parent", rate,
                     [NoInputs EXCEPT !.parent_rate = parent_rate, !.index = index])

\* the parent rate the two are called with in Spec; SpecArgs calls them with
\* every parent rate of 0..MaxParentRate
ParentRateSamples == {MaxParentRate}

clk_rcg2_set_rate == SetRate(ParentRateSamples)

clk_rcg2_set_rate_and_parent == SetRateAndParent(ParentRateSamples)

\* variant: the result of regmap_update_bits is not tested
WriteStepGoesOn(step, reg, mask, val, next) ==
    /\ pc = step
    /\ \E e \in {0} \cup RegmapErrs :
          IF e = 0
          THEN /\ regmap' = [regmap EXCEPT ![reg] = UpdateBits(@, mask, val)]
               /\ wlog' = Append(wlog, Wrote(reg, TRUE))
               /\ UNCHANGED <<ret, ioerr>>
          ELSE /\ ret' = e
               /\ ioerr' = e
               /\ wlog' = Append(wlog, Wrote(reg, FALSE))
               /\ UNCHANGED regmap
    /\ pc' = next
    /\ UNCHANGED <<rcg, op, arg, f, fault, loopvars, callvars, outvars, probevars,
                   histvars>>

\* one regmap_update_bits of __clk_rcg2_set_rate: on success the next step,
\* on failure the error is returned
WriteStep(step, reg, mask, val, next) ==
    /\ pc = step
    /\ \E e \in {0} \cup RegmapErrs :
          IF e = 0
          THEN /\ regmap' = [regmap EXCEPT ![reg] = UpdateBits(@, mask, val)]
               /\ wlog' = Append(wlog, Wrote(reg, TRUE))
               /\ pc' = next
               /\ UNCHANGED <<ret, ioerr>>
          ELSE /\ ret' = e
               /\ ioerr' = e
               /\ wlog' = Append(wlog, Wrote(reg, FALSE))
               /\ pc' = "done"
               /\ UNCHANGED regmap
    /\ UNCHANGED <<rcg, op, arg, f, fault, loopvars, callvars, outvars, probevars,
                   histvars>>

WriteM == WriteStep("M", "M", MndMask, MVal(f), "N")
WriteN == WriteStep("N", "N", MndMask, NVal(f), "D")
WriteD == WriteStep("D", "D", MndMask, DVal(f), "CFG")
WriteCfg == WriteStep("CFG", "CFG", CfgMask, CfgVal(f), "UPDATE")

\* ------------------------------------------------------------ set_parent
\* variant: the shift of the select value is left out
SelValUnshifted(index) == ToU32(PM(index))

\* rcg->parent_map[index] << CFG_SRC_SEL_SHIFT
SelVal(index) == Shl(ToU32(PM(index)), CFG_SRC_SEL_SHIFT)

clk_rcg2_set_parent ==
    \E index \in 0..(num_parents - 1) :
        /\ Begin("set_parent", index)
        /\ \E e \in {0} \cup RegmapErrs :
              /\ ioerr' = e
              /\ IF e = 0
                 THEN /\ regmap' = [regmap EXCEPT !["CFG"] =
                            UpdateBits(@, CFG_SRC_SEL_MASK, SelVal(index))]
                      /\ wlog' = << Wrote("CFG", TRUE) >>
                      /\ pc' = "UPDATE"
                      /\ UNCHANGED ret
                 ELSE /\ ret' = e
                      /\ wlog' = << Wrote("CFG", FALSE) >>
                      /\ pc' = "done"
                      /\ UNCHANGED regmap
        /\ fault' = FALSE
        /\ UNCHANGED <<rcg, f, outvars, histvars>>

\* ------------------------------------------------------------ update_config
\* The register-access interface and the hardware are the inputs of the wait
\* loop: read number failJ fails with error err (failJ = 0: no read fails),
\* and the hardware clears the update bit before read number clearK
\* (clearK = 0: it does not clear it while the loop runs).

\* variant: a failing read ends the loop with success
PollTurnSwallowsError(it, clearK, failJ, err) ==
    IF it = failJ \/ (clearK # 0 /\ it >= clearK)
    THEN [exit |-> TRUE, ret |-> 0, polls |-> it, delays |-> it - 1,
          warns |-> 0, clearAt |-> IF it = failJ THEN 0 ELSE it,
          count |-> PollCount - it + 1, ioerr |-> IF it = failJ THEN err ELSE 0]
    ELSE [exit |-> FALSE, ret |-> 0, polls |-> it, delays |-> it,
          warns |-> 0, clearAt |-> 0, count |-> PollCount - it, ioerr |-> 0]

\* One turn of the loop, the read number `it`: the read, the test of the
\* update bit and the delay.
PollTurn(it, clearK, failJ, err) ==
    IF it = failJ
    THEN [exit |-> TRUE, ret |-> err, polls |-> it, delays |-> it - 1,
          warns |-> 0, clearAt |-> 0, count |-> PollCount - it + 1, ioerr |-> err]
    ELSE IF clearK # 0 /\ it >= clearK
    THEN [exit |-> TRUE, ret |-> 0, polls |-> it, delays |-> it - 1,
          warns |-> 0, clearAt |-> it, count |-> PollCount - it + 1, ioerr |-> 0]
    ELSE [exit |-> FALSE, ret |-> 0, polls |-> it, delays |-> it,
          warns |-> 0, clearAt |-> 0, count |-> PollCount - it, ioerr |-> 0]

\* The turns lo..hi in order, stopping at the first that returns.  The range
\* is run as two halves, one after the other, to keep the evaluation shallow.
RECURSIVE PollTurns(_, _, _, _, _)
RECURSIVE PollRest(_, _, _, _, _, _)
\* variant: the loop goes on after a turn that should have returned
PollRestGoesOn(a, lo, hi, clearK, failJ, err) == PollTurns(lo, hi, clearK, failJ, err)

PollRest(a, lo, hi, clearK, failJ, err) ==
    IF a.exit THEN a ELSE PollTurns(lo, hi, clearK, failJ, err)

PollTurns(lo, hi, clearK, failJ, err) ==
    IF lo = hi
    THEN PollTurn(lo, clearK, failJ, err)
    ELSE PollRest(PollTurns(lo, (lo + hi) \div 2, clearK, failJ, err),
                  (lo + hi) \div 2 + 1, hi, clearK, failJ, err)

\* variant: no WARN
PollEndSilent(a) == a

\* the end of the loop: WARN(...) when no turn returned
PollEnd(a) == IF a.exit THEN a ELSE [a EXCEPT !.warns = 1]

\* variant: the loop starts one short, count = 499
PollLoopOneShort(clearK, failJ, err) ==
    PollEnd(PollTurns(1, PollCount - 1, clearK, failJ, err))

\* for (count = 500; count > 0; count--) { ... } WARN(...); return 0;
PollLoop(clearK, failJ, err) == PollEnd(PollTurns(1, PollCount, clearK, failJ, err))

\* what update_config leaves once the update bit is set and the loop has
\* run with result r
Polled(r) ==
    /\ regmap' = [regmap EXCEPT !["CMD"] =
                     IF r.clearAt # 0
                     THEN @ \ CMD_UPDATE
                     ELSE UpdateBits(@, CMD_UPDATE, CMD_UPDATE)]
    /\ wlog' = Append(wlog, Wrote("CMD", TRUE))
    /\ ret' = r.ret
    /\ ioerr' = r.ioerr
    /\ count' = r.count
    /\ polls' = r.polls
    /\ delays' = r.delays
    /\ warns' = r.warns
    /\ clearAt' = r.clearAt

\* update_config: the update bit is set, then the wait loop runs
UpdateConfig(ClearTimes, FailTimes) ==
    /\ pc = "UPDATE"
    /\ pc' = "done"
    /\ \E e \in {0} \cup RegmapErrs :
          IF e # 0
          THEN /\ ret' = e
               /\ ioerr' = e
               /\ wlog' = Append(wlog, Wrote("CMD", FALSE))
               /\ UNCHANGED <<regmap, loopvars>>
          ELSE \E clearK \in ClearTimes, failJ \in FailTimes :
               \E err \in IF failJ = 0 THEN {0} ELSE RegmapErrs :
                   /\ hw' = [clearK |-> clearK, failJ |-> failJ]
                   /\ Polled(PollLoop(clearK, failJ, err))
    /\ programmed' = IF op \in {"set_rate", "set_rate_and_parent"} /\ ret' = 0
                     THEN f
                     ELSE programmed
    /\ UNCHANGED <<rcg, op, arg, f, fault, callvars, outvars, probevars>>

\* the reads before which the hardware is taken to clear the update bit, and
\* the reads taken to fail
ClearSamples == {0, 1, 2, PollCount}
FailSamples == {0, 1, PollCount}

update_config == UpdateConfig(ClearSamples, FailSamples)

\* ------------------------------------------------------------ hardware
\* the generator latches the configuration and clears the update bit
HwClearUpdate ==
    /\ (regmap["CMD"] \cap CMD_UPDATE) # {}
    /\ regmap' = [regmap EXCEPT !["CMD"] = @ \ CMD_UPDATE]
    /\ UNCHANGED <<rcg, pc, op, arg, f, ret, wlog, ioerr, fault, loopvars,
                   callvars, outvars, probevars, histvars>>

\* ------------------------------------------------------------ the driver
Next == \/ clk_rcg2_is_enabled
        \/ clk_rcg2_get_parent
        \/ clk_rcg2_recalc_rate
        \/ clk_rcg2_determine_rate
        \/ clk_rcg2_set_rate
        \/ clk_rcg2_set_rate_and_parent
        \/ clk_rcg2_set_parent
        \/ WriteM
        \/ WriteN
        \/ WriteD
        \/ WriteCfg
        \/ update_config
        \/ Return
        \/ HwClearUpdate

Spec == Init /\ [][Next]_vars

\* ------------------------------------------------------------ the wait loop
\* update_config with the hardware clearing the update bit before any of
\* the reads 1..PollCount, on a device whose only rate-changing call that
\* reaches it is set_parent
InitCommit == /\ rcg = NoTblDevice
              /\ regmap \in RegFiles
              /\ NoCall
              /\ NoProbe
              /\ programmed = Sentinel

update_config_any == UpdateConfig(0..PollCount, FailSamples)

NextCommit == \/ clk_rcg2_set_parent
              \/ update_config_any
              \/ Return
              \/ HwClearUpdate

SpecCommit == InitCommit /\ [][NextCommit]_vars

\* ------------------------------------------------------------ the rate calls
\* set_rate and set_rate_and_parent with every parent rate and index, on the
\* devices that have a table with entries; the commit either sees the update
\* bit clear at its first read or times out
InitArgs == /\ rcg \in { d \in Devices : d.freq_tbl \in {TblA, TblB} }
            /\ regmap \in RegFiles
            /\ NoCall
            /\ NoProbe
            /\ programmed = Sentinel

clk_rcg2_set_rate_any == SetRate(0..MaxParentRate)

clk_rcg2_set_rate_and_parent_any == SetRateAndParent(0..MaxParentRate)

update_config_once == UpdateConfig({0, 1}, {0})

NextArgs == \/ clk_rcg2_set_rate_any
            \/ clk_rcg2_set_rate_and_parent_any
            \/ WriteM
            \/ WriteN
            \/ WriteD
            \/ WriteCfg
            \/ update_config_once
            \/ Return
            \/ HwClearUpdate

SpecArgs == InitArgs /\ [][NextArgs]_vars

\* ------------------------------------------------------------ zynq_ocm_probe
\* The block detection loop of zynq_ocm_probe.  ocm_config is the set of the
\* bits set in the value of zynq_slcr_get_ocm_config(), smp tells whether the
\* kernel is built with CONFIG_SMP, and trampoline_code_size is
\* &zynq_secondary_trampoline_end - &zynq_secondary_trampoline.
TrampolineSizes == {12, 32}

InitOcm == /\ rcg = NoTblDevice
           /\ regmap \in { RegFile({}, {}, {}, {}, {}) }
           /\ NoCall
           /\ programmed = Sentinel
           /\ ocm_config \in SUBSET (0..(ZYNQ_OCM_BLOCKS - 1))
           /\ smp \in BOOLEAN
           /\ trampoline_code_size \in IF smp THEN TrampolineSizes ELSE {0}
           /\ ocm_i = 0
           /\ curr = 0
           /\ res = ZeroRes

\* base, start and end of the block of the turn
OcmBase == IF ocm_i \in ocm_config THEN ZYNQ_OCM_HIGHADDR ELSE ZYNQ_OCM_LOWADDR
OcmStart == Addr((ocm_i + OcmBase.hi) % 2^16, OcmBase.lo)
OcmEnd == AddrPlus(OcmStart, ZYNQ_OCM_BLOCK_SIZE - 1)

\* the start of a new resource: postponed under CONFIG_SMP if (!base)
OcmNewStart ==
    IF smp /\ OcmBase = ZYNQ_OCM_LOWADDR
    THEN AddrPlus(OcmStart, trampoline_code_size)
    ELSE OcmStart

\* one turn of for (i = 0; i < ZYNQ_OCM_BLOCKS; i++)
zynq_ocm_probe ==
    /\ ocm_i < ZYNQ_OCM_BLOCKS
    /\ IF ocm_i > 0 /\ OcmStart = AddrPlus(res[curr - 1].end, 1)
       THEN /\ res' = [res EXCEPT ![curr - 1].end = OcmEnd]
            /\ UNCHANGED curr
       ELSE /\ res' = [res EXCEPT ![curr] = [start |-> OcmNewStart,
                                             end |-> OcmEnd,
                                             flags |-> {"IORESOURCE_MEM"}]]
            /\ curr' = curr + 1
    /\ ocm_i' = ocm_i + 1
    /\ UNCHANGED <<ocm_config, smp, trampoline_code_size>>
    /\ UNCHANGED <<rcg, regmap, pc, op, arg, f, ret, wlog, ioerr, fault, loopvars,
                   callvars, outvars, histvars>>

NextOcm == zynq_ocm_probe

SpecOcm == InitOcm /\ [][NextOcm]_vars

\* ------------------------------------------------------------ find_freq alone
\* the nondecreasing sequences of at most MaxTblLen frequencies in 1..MaxFreq
FreqSeqs == UNION { { s \in [1..len -> 1..MaxFreq] :
                        \A i \in 1..len, j \in 1..len : i < j => s[i] <= s[j] } :
                    len \in 0..MaxTblLen }
FreqEntry(fr) == Entry(fr, 0, 0, 0, 0)
\* a table: its entries, the entry of freq 0, and what memory holds after it
TableOf(s, after) == [i \in 1..Len(s) |-> FreqEntry(s[i])] \o << Sentinel >> \o after
FindTables == { TableOf(s, after) : s \in FreqSeqs,
                after \in { << >>, << FreqEntry(MaxFreq) >> } } \cup { NullTbl }

InitFind == /\ rcg \in { Rcg(0, 5, <<0>>, tbl) : tbl \in FindTables }
            /\ regmap \in { RegFile({}, {}, {}, {}, {}) }
            /\ NoCall
            /\ NoProbe
            /\ programmed = Sentinel

FindFreq ==
    /\ \E rate \in 0..MaxRate : Begin("find_freq", rate)
    /\ ret' = find_freq(rcg.freq_tbl, arg')
    /\ pc' = "done"
    /\ ioerr' = 0
    /\ wlog' = << >>
    /\ fault' = FALSE
    /\ UNCHANGED <<rcg, regmap, f, outvars, histvars>>

NextFind == \/ FindFreq
            \/ Return

SpecFind == InitFind /\ [][NextFind]_vars

\* ------------------------------------------------------------ calc_rate alone
CalcArgs == [rate : 0..MaxCalcRate, m : 0..MaxMN, n : 0..MaxMN, mode : 0..3,
             hid_div : 0..MaxHidDiv]

InitCalc == /\ rcg = NoTblDevice
            /\ regmap \in { RegFile({}, {}, {}, {}, {}) }
            /\ pc = "idle"
            /\ op = "none"
            /\ arg \in CalcArgs
            /\ f = Sentinel
            /\ ret = 0
            /\ wlog = << >>
            /\ count = 0
            /\ polls = 0
            /\ delays = 0
            /\ warns = 0
            /\ clearAt = 0
            /\ ioerr = 0
            /\ fault = FALSE
            /\ hw = NoOracle
              /\ given = NoInputs
            /\ p = << >>
            /\ p_rate = << >>
            /\ NoProbe
            /\ programmed = Sentinel

CalcRate ==
    /\ pc = "idle"
    /\ pc' = "done"
    /\ op' = "calc_rate"
    /\ fault' = DivFault(arg.mode, arg.n)
    /\ ret' \in CalcRateResults(arg.rate, arg.m, arg.n, arg.mode, arg.hid_div)
    /\ UNCHANGED <<rcg, regmap, arg, f, wlog, ioerr, loopvars, callvars, outvars,
                   probevars, histvars>>

NextCalc == CalcRate

SpecCalc == InitCalc /\ [][NextCalc]_vars

\* ------------------------------------------------------------ properties
RateOps == {"set_rate", "set_rate_and_parent"}

\* update_config was entered by the call: the call tried to set the update bit
Committed == \E i \in 1..Len(wlog) : wlog[i].reg = "CMD"
\* ... and the write that sets the update bit succeeded
UpdateBitWritten == \E i \in 1..Len(wlog) : wlog[i].reg = "CMD" /\ wlog[i].ok

\* the place of the first entry of freq 0 of a table
SentinelAt(tbl) == CHOOSE i \in 1..Len(tbl) :
                      tbl[i].freq = 0 /\ \A j \in 1..(i - 1) : tbl[j].freq # 0
\* the entries before it
BeforeSentinel(tbl) == 1..(SentinelAt(tbl) - 1)
\* no entry of the table reaches the rate
NoEntryFor(tbl, rate) ==
    tbl = NullTbl \/ \A i \in BeforeSentinel(tbl) : tbl[i].freq < rate

\* the fields of a config register value
DivField(cfg) == Val(cfg \cap LowMask(rcg.hid_width))
ModeField(cfg) == Val(Shr(cfg \cap CFG_MODE_MASK, CFG_MODE_SHIFT))

\* C1: is_enabled reports "enabled" (1) exactly when the root-off bit, bit 31
\* of the command register, is clear and "not enabled" (0) exactly when it is
\* set; a failing read is returned as the negative error, never as 0.
C1_EnabledIffRootOffClear ==
    (op = "is_enabled" /\ pc = "done") =>
        IF ioerr # 0
        THEN ret = ioerr /\ ret < 0
        ELSE /\ ret \in {0, 1}
             /\ (ret = 1) <=> (31 \notin regmap["CMD"])

\* C2: on a table of ascending frequencies ended by an entry of frequency 0,
\* find_freq returns the first entry before the sentinel whose frequency is
\* >= the rate, so every entry before it is below the rate; it returns NULL
\* exactly when no entry before the sentinel reaches the rate or the table is
\* absent or empty; it never returns the sentinel or anything after it.
C2_FindFreqFirstAtLeast ==
    (op = "find_freq" /\ pc = "done") =>
        IF NoEntryFor(rcg.freq_tbl, arg)
        THEN ret = 0
        ELSE /\ ret \in BeforeSentinel(rcg.freq_tbl)
             /\ rcg.freq_tbl[ret].freq >= arg
             /\ \A j \in 1..(ret - 1) : rcg.freq_tbl[j].freq < arg

\* a rate found at the second entry of a table that has memory after its sentinel
C2_Witness ==
    /\ op = "find_freq"
    /\ pc = "done"
    /\ ret = 2
    /\ Len(rcg.freq_tbl) > SentinelAt(rcg.freq_tbl)

\* C3 as stated: once update_config is entered it ends only by a poll reading
\* the update bit clear or by the 500 polls running out, and returns 0 either
\* way, whatever the register accesses do.
C3_CommitNeverFails ==
    (pc = "done" /\ Committed) =>
        /\ ret = 0
        /\ (clearAt # 0 \/ polls = PollCount)

\* the read the inputs of the wait loop make fail before any read sees the
\* update bit clear
ReadFails == hw.failJ # 0 /\ (hw.clearK = 0 \/ hw.failJ <= hw.clearK)

\* C3 amended: update_config returns an error exactly when a register access
\* fails (the write that sets the update bit, or a read of the wait loop), and
\* then at once; when every access succeeds it ends by a poll reading the
\* update bit clear or by the 500 polls running out, and returns 0 either way.
C3_CommitFailsOnlyOnAccessError ==
    (pc = "done" /\ Committed) =>
        IF ~UpdateBitWritten
        THEN ret \in RegmapErrs /\ polls = 0 /\ warns = 0
        ELSE IF ReadFails
        THEN ret \in RegmapErrs /\ polls = hw.failJ /\ warns = 0
        ELSE /\ ret = 0
             /\ \/ hw.clearK # 0 /\ polls = hw.clearK /\ warns = 0
                \/ hw.clearK = 0 /\ polls = PollCount

\* the last read of the wait loop fails
C3_Witness ==
    /\ pc = "done"
    /\ Committed
    /\ hw.failJ = PollCount
    /\ hw.clearK = 0
    /\ ret < 0
    /\ polls = PollCount

\* C4: when every read of the wait loop sees the update bit set,
\* update_config reads the command register exactly 500 times, warns exactly
\* once and returns 0, and so do set_rate, set_rate_and_parent and set_parent.
C4_TimeoutReturnsSuccess ==
    (/\ pc = "done"
     /\ op \in RateOps \cup {"set_parent"}
     /\ UpdateBitWritten
     /\ hw.clearK = 0
     /\ hw.failJ = 0) =>
        /\ polls = PollCount
        /\ delays = PollCount
        /\ count = 0
        /\ warns = 1
        /\ ret = 0

\* a set_rate whose commit timed out
C4_Witness ==
    /\ pc = "done"
    /\ op = "set_rate"
    /\ UpdateBitWritten
    /\ hw.clearK = 0
    /\ hw.failJ = 0
    /\ warns = 1

\* C5: when read number k (1 <= k <= 500) is the first that sees the update
\* bit clear, update_config returns 0 right after that read: k reads, k - 1
\* delays, no warning.
C5_EarlyExitAtFirstClear ==
    (/\ pc = "done"
     /\ UpdateBitWritten
     /\ hw.clearK # 0
     /\ ~ReadFails) =>
        /\ ret = 0
        /\ polls = hw.clearK
        /\ clearAt = hw.clearK
        /\ delays = hw.clearK - 1
        /\ count = PollCount - hw.clearK + 1
        /\ warns = 0

\* the update bit is seen clear first at a read in the middle of the loop
C5_Witness ==
    /\ pc = "done"
    /\ UpdateBitWritten
    /\ hw.clearK = PollCount \div 2
    /\ hw.failJ = 0
    /\ polls = PollCount \div 2

\* C6: set_rate and set_rate_and_parent called with a rate above every entry
\* of the table, or with no table, return -EINVAL and write no register: the
\* call never reaches a write of M, N, D, the config or the command register.
C6_NoMatchNoWrite ==
    (op \in RateOps /\ NoEntryFor(rcg.freq_tbl, arg)) =>
        /\ pc = "done"
        /\ ret = -EINVAL
        /\ wlog = << >>

\* a rate above every entry of a table that has entries
C6_Witness ==
    /\ op = "set_rate"
    /\ pc = "done"
    /\ rcg.freq_tbl = TblA
    /\ arg > TblA[2].freq
    /\ ret = -EINVAL

\* the config register holds the fields of the entry f
ConfigMatches(e) ==
    /\ DivField(regmap["CFG"]) = e.pre_div
    /\ SrcSel(regmap["CFG"]) = PM(e.src)
    /\ ModeField(regmap["CFG"]) = IF Fractional(e) THEN 2 ELSE 0

\* C7 as stated: after a successful __clk_rcg2_set_rate with any entry of the
\* table, from any prior content of the config register, the config register
\* reads back the entry's pre-divider, the mapped parent select and the mode.
C7_ConfigRoundTrip ==
    (op \in RateOps /\ pc = "done" /\ ret = 0) => ConfigMatches(f)

\* the entry's fields fit the fields of the config register
FitsConfig(e) ==
    /\ rcg.hid_width <= CFG_SRC_SEL_SHIFT
    /\ e.pre_div < 2^rcg.hid_width
    /\ PM(e.src) <= 7

\* C7 amended: the same, for the entries whose pre-divider is below
\* 2^hid_width with hid_width <= 8 and whose mapped parent select is at most 7.
C7_ConfigRoundTripWhenFits ==
    (op \in RateOps /\ pc = "done" /\ ret = 0 /\ FitsConfig(f)) => ConfigMatches(f)

\* a fractional entry programmed over a config register that held all ones
C7_Witness ==
    /\ op = "set_rate"
    /\ pc = "done"
    /\ ret = 0
    /\ FitsConfig(f)
    /\ Fractional(f)
    /\ 31 \in regmap["CFG"]

\* the indices of the parent map that hold the select field of the config register
Matching == {i \in 0..(num_parents - 1) : PM(i) = SrcSel(regmap["CFG"])}

\* C8: get_parent returns an index whose parent_map entry equals the select
\* field of the config register when there is one (the first such), and when
\* none matches or the read fails it returns a value that is no valid index.
C8_GetParentIndexOrError ==
    (op = "get_parent" /\ pc = "done") =>
        IF ioerr = 0 /\ Matching # {}
        THEN ret \in Matching /\ \A i \in Matching : ret <= i
        ELSE ret \notin 0..(num_parents - 1)

\* the select field matches no entry of the parent map
C8_Witness ==
    /\ op = "get_parent"
    /\ pc = "done"
    /\ ioerr = 0
    /\ Matching = {}
    /\ ret = 256 - EINVAL

\* the rate of the specification's formula
RefStage1(parentRate, preDivider) ==
    IF preDivider = 0 THEN parentRate ELSE (2 * parentRate) \div (preDivider + 1)
RefRate(parentRate, m, n, dualEdge, preDivider) ==
    IF dualEdge
    THEN (RefStage1(parentRate, preDivider) * m) \div n
    ELSE RefStage1(parentRate, preDivider)

\* C9: wherever its division is defined, calc_rate equals the formula:
\* parentRate * 2 / (preDivider + 1) when the pre-divider is not 0, then
\* times m over n when the mode is not 0, both truncating; with pre-divider
\* 0 and n 0 the result is the parent rate.
C9_CalcRateFormula ==
    (op = "calc_rate" /\ pc = "done" /\ ~fault) =>
        /\ ret = RefRate(arg.rate, arg.m, arg.n, arg.mode # 0, arg.hid_div)
        /\ (arg.hid_div = 0 /\ arg.n = 0) => ret = arg.rate

\* both stages taken: 8 * 2 / 4 = 4, then 4 * 1 / 2 = 2
C9_Witness ==
    /\ op = "calc_rate"
    /\ pc = "done"
    /\ arg = [rate |-> 8, m |-> 1, n |-> 2, mode |-> 2, hid_div |-> 3]
    /\ ret = 2

\* C10: recalc_rate never divides by zero, whatever the config, M and N
\* registers hold: a mode that is not 0 comes with an n that is not 0.
C10_RecalcNeverDividesByZero ==
    (op = "recalc_rate" /\ pc = "done" /\ ioerr = 0) => ~fault

\* ------------------------------------------------------------ set_parent
\* the registers other than those of rs keep their value in the step
Keeps(rs) == \A r \in RegNames \ rs : regmap'[r] = regmap[r]

\* The frame of a set_parent call.  Its first step writes the config
\* register only, and there only the select field; a failing write changes
\* nothing and returns the error.  The rest of the call is update_config: the
\* only register that changes is the command register, and of it only the
\* update bit; update_config is entered exactly when the config write
\* succeeded.
SetParentFrame ==
    /\ (pc = "idle" /\ op' = "set_parent") =>
          /\ Keeps({"CFG"})
          /\ regmap'["CFG"] \ CFG_SRC_SEL_MASK = regmap["CFG"] \ CFG_SRC_SEL_MASK
          /\ IF wlog'[1].ok
             THEN pc' = "UPDATE"
             ELSE regmap' = regmap /\ pc' = "done" /\ ret' \in RegmapErrs
    /\ (op = "set_parent" /\ op' = "set_parent") =>
          /\ Keeps({"CMD"})
          /\ regmap'["CMD"] \ CMD_UPDATE = regmap["CMD"] \ CMD_UPDATE
    /\ (op' = "set_parent" /\ pc' = "done") =>
          /\ wlog'[1].reg = "CFG"
          /\ \A k \in 2..Len(wlog') : wlog'[k].reg = "CMD"
          /\ (Len(wlog') = 2) <=> wlog'[1].ok

\* C11 as stated: set_parent(index) changes only the select field (bits
\* 8-10) of the config register and sets it to parent_map[index], keeps every
\* other config bit and M, N and D, and then runs update_config; when the
\* config write fails the error is returned and the update bit is not written.
C11_SetParentWritesMapValue ==
    [][/\ SetParentFrame
       /\ (pc = "idle" /\ op' = "set_parent" /\ wlog'[1].ok) =>
              SrcSel(regmap'["CFG"]) = PM(arg')]_vars

\* C11 amended: the same, the select field being set to the low three bits
\* of parent_map[index], which is parent_map[index] when that is at most 7.
C11_SetParentWritesLowBits ==
    [][/\ SetParentFrame
       /\ (pc = "idle" /\ op' = "set_parent" /\ wlog'[1].ok) =>
              SrcSel(regmap'["CFG"]) = PM(arg') % 8]_vars

\* parent 1 selected over a config register that held all ones, and committed
C11_Witness ==
    /\ op = "set_parent"
    /\ pc = "done"
    /\ arg = 1
    /\ PM(1) = 5
    /\ SrcSel(regmap["CFG"]) = 5
    /\ 31 \in regmap["CFG"]
    /\ UpdateBitWritten

\* ------------------------------------------------------------ determine_rate
\* the place of the first entry before the sentinel that reaches the rate
FirstFor(tbl, rate) ==
    CHOOSE k \in BeforeSentinel(tbl) :
        /\ tbl[k].freq >= rate
        /\ \A j \in 1..(k - 1) : tbl[j].freq < rate

\* C12: determine_rate returns the frequency of the first table entry whose
\* frequency is >= the requested rate and stores the parent at that entry's
\* source index; when the rate may not propagate to the parent the parent
\* rate stored is the current rate of that parent; when no entry reaches the
\* rate it returns an error and stores neither the parent nor the parent rate.
C12_DetermineRate ==
    (op = "determine_rate" /\ pc = "done") =>
        IF NoEntryFor(rcg.freq_tbl, arg)
        THEN ret = -EINVAL /\ p = << >> /\ p_rate = << >>
        ELSE /\ ret = rcg.freq_tbl[FirstFor(rcg.freq_tbl, arg)].freq
             /\ p = << rcg.freq_tbl[FirstFor(rcg.freq_tbl, arg)].src >>
             /\ Len(p_rate) = 1
             /\ (CLK_SET_RATE_PARENT \notin given.clk_flags) =>
                    p_rate[1] = given.rates[p[1] + 1]

\* a rate below the second entry's frequency, the parents running at
\* different rates, the rate not propagating
C12_Witness ==
    /\ op = "determine_rate"
    /\ pc = "done"
    /\ rcg.freq_tbl = TblA
    /\ arg = 3
    /\ ret = 4
    /\ given.clk_flags = {}
    /\ given.rates = << 0, MaxParentRate >>
    /\ p = << 1 >>
    /\ p_rate = << MaxParentRate >>

\* ------------------------------------------------------------ the write sequence
\* the registers a call of __clk_rcg2_set_rate with entry e writes, in order
WriteOrder(e) ==
    IF Fractional(e) THEN << "M", "N", "D", "CFG", "CMD" >> ELSE << "CFG", "CMD" >>

\* what a write of the sequence puts into its register, and under which mask
StagedMask(r) == IF r = "CFG" THEN CfgMask ELSE MndMask
StagedVal(r, e) == CASE r = "M" -> MVal(e)
                     [] r = "N" -> NVal(e)
                     [] r = "D" -> DVal(e)
                     [] r = "CFG" -> CfgVal(e)

\* the writes tried so far follow the order; a failed write is the last one
\* and the call has returned its error; a call that returned 0 made them all;
\* and every register written with success holds what was written
WritesInOrder ==
    (op \in RateOps /\ ~(pc = "done" /\ wlog = << >>)) =>
        /\ Len(wlog) <= Len(WriteOrder(f))
        /\ \A k \in 1..Len(wlog) :
              /\ wlog[k].reg = WriteOrder(f)[k]
              /\ ~wlog[k].ok => /\ k = Len(wlog)
                                /\ pc = "done"
                                /\ ret \in RegmapErrs
              /\ (wlog[k].ok /\ wlog[k].reg # "CMD") =>
                    regmap[wlog[k].reg] \cap StagedMask(wlog[k].reg)
                        = StagedVal(wlog[k].reg, f) \cap StagedMask(wlog[k].reg)
        /\ (pc = "done" /\ ret = 0) =>
              /\ Len(wlog) = Len(WriteOrder(f))
              /\ \A k \in 1..Len(wlog) : wlog[k].ok

\* a step of the call that tries a write changes no register but the one it
\* writes, and nothing when the write fails
WriteTouchesOneRegister ==
    (op' \in RateOps /\ Len(wlog') = Len(wlog) + 1) =>
        IF wlog'[Len(wlog')].ok
        THEN Keeps({wlog'[Len(wlog')].reg})
        ELSE regmap' = regmap

\* C13: __clk_rcg2_set_rate writes M, N, D (in fractional mode only), the
\* config register and the update bit, in this order; when a write fails the
\* error is returned at once, no later register of the sequence is written,
\* the update bit is not written by the call, and the registers written
\* before keep what was written to them.
C13_WriteOrderAndAbort ==
    [][WritesInOrder' /\ WriteTouchesOneRegister]_vars

\* the write of D fails after M and N were written
C13_Witness ==
    /\ op = "set_rate"
    /\ pc = "done"
    /\ Len(wlog) = 3
    /\ wlog[1] = Wrote("M", TRUE)
    /\ wlog[2] = Wrote("N", TRUE)
    /\ wlog[3] = Wrote("D", FALSE)
    /\ ret \in RegmapErrs
    /\ regmap["M"] \cap MndMask = MVal(f) \cap MndMask
    /\ regmap["D"] = AllOnes

\* ------------------------------------------------------------ the masks
\* the bits of the config register a rate change may touch: the divider
\* field, the select field (bits 8-10) and the mode field (bits 12-13)
RateConfigBits == {b \in Word : b < rcg.hid_width} \cup {8, 9, 10} \cup {12, 13}
\* the bits of M, N and D it may touch
RateMndBits == {b \in Word : b < rcg.mnd_width}

\* C14: a step of set_rate or set_rate_and_parent changes no bit of the
\* config register outside the divider, select and mode fields and no bit of
\* M, N and D above the low mnd_width bits; and the call does not write M, N
\* or D at all when mnd_width is 0 or the n of the entry is 0.
C14_RateChangeKeepsOtherBits ==
    [][op' \in RateOps =>
          /\ regmap'["CFG"] \ RateConfigBits = regmap["CFG"] \ RateConfigBits
          /\ \A r \in {"M", "N", "D"} :
                regmap'[r] \ RateMndBits = regmap[r] \ RateMndBits
          /\ (rcg.mnd_width = 0 \/ f'.n = 0) =>
                /\ \A r \in {"M", "N", "D"} : regmap'[r] = regmap[r]
                /\ \A k \in 1..Len(wlog') : wlog'[k].reg \notin {"M", "N", "D"}]_vars

\* a fractional entry programmed over registers that held all ones: the low
\* bits of N are the entry's, the bits above and the config bits between the
\* fields are still set
C14_Witness ==
    /\ op = "set_rate"
    /\ pc = "done"
    /\ ret = 0
    /\ Fractional(f)
    /\ regmap["N"] \cap RateMndBits = NVal(f) \cap RateMndBits
    /\ regmap["N"] \cap RateMndBits # RateMndBits
    /\ 31 \in regmap["N"]
    /\ {11, 14, 31} \subseteq regmap["CFG"]
    /\ ModeField(regmap["CFG"]) = 2

\* ------------------------------------------------------------ the protocol
\* the update bit of the command register is set: a commit is pending
Pending == (regmap["CMD"] \cap CMD_UPDATE) # {}

\* the step writes a staging register (config, M, N or D) with success
Stages ==
    /\ Len(wlog') = Len(wlog) + 1
    /\ wlog'[Len(wlog')].ok
    /\ wlog'[Len(wlog')].reg # "CMD"

\* C15 as stated: the staging registers are written only while the update
\* bit is clear, also after a call that ended by commit timeout.
C15_StagedOnlyWhenNotPending ==
    [][Stages => ~Pending]_vars

\* C15 amended: within a call the staging registers are written only before
\* the call sets the update bit; a commit that saw the update bit clear leaves
\* it clear; the update bit is left set only by a commit that ended by
\* timeout (with its warning) or by a failed read, and it is after such a
\* call, and only then, that the next call stages while a commit is pending.
C15_StagedBeforeOwnCommit ==
    [][/\ Stages => ~UpdateBitWritten
       /\ (pc = "UPDATE" /\ pc' = "done" /\ clearAt' # 0) => ~Pending'
       /\ (~Pending /\ Pending') =>
             /\ pc = "UPDATE"
             /\ pc' = "done"
             /\ clearAt' = 0
             /\ (warns' = 1 /\ ret' = 0) \/ ret' \in RegmapErrs]_vars

\* a call has staged the select field while the commit of an earlier call,
\* which timed out, is still pending
C15_Witness ==
    /\ op = "set_parent"
    /\ pc = "UPDATE"
    /\ wlog = << Wrote("CFG", TRUE) >>
    /\ Pending

\* C16: when the rate may propagate to the parent, the parent rate
\* determine_rate stores is an inverse of calc_rate for the entry it chose:
\* calc_rate of that parent rate with the entry's m, n, mode (n # 0) and
\* pre-divider is the rate determine_rate returns, for every requested rate
\* of at least 1 that selects the entry; and determine_rate does not divide
\* by zero.
C16_ParentRateInvertsCalcRate ==
    (/\ op = "determine_rate"
     /\ pc = "done"
     /\ ret >= 0
     /\ arg >= 1
     /\ CLK_SET_RATE_PARENT \in given.clk_flags) =>
        /\ ~fault
        /\ calc_rate(p_rate[1], f.m, f.n, IF f.n # 0 THEN 1 ELSE 0, f.pre_div) = ret

\* ------------------------------------------------------------ the round trip
\* the entry's pre-divider fits the divider field and, in fractional mode,
\* its m is below its n and both fit the low mnd_width bits
FitsRate(e) ==
    /\ e.pre_div < 2^rcg.hid_width
    /\ Fractional(e) => (e.m < e.n /\ e.n < 2^rcg.mnd_width)

\* C17: after a rate change that programmed an entry E that fits (its
\* pre-divider in the divider field, in fractional mode m < n in the low
\* mnd_width bits) and returned 0, whatever the registers held before,
\* recalc_rate(parent_rate) is the formula's rate for E's m, n, mode and
\* pre-divider: it divides by the n of E, recovered as (~N & mask) + M, and
\* for an entry that is not fractional the M and N registers do not count.
C17_RecalcAfterSetRate ==
    (/\ op = "recalc_rate"
     /\ pc = "done"
     /\ ioerr = 0
     /\ programmed # Sentinel
     /\ FitsRate(programmed)) =>
        /\ ~fault
        /\ ret = RefRate(arg, programmed.m, programmed.n, Fractional(programmed),
                         programmed.pre_div)
        /\ Fractional(programmed) =>
              RecalcN(regmap["M"], regmap["N"]) = programmed.n

\* recalc_rate after an entry that is not fractional, on a device with M/N
\* counters whose M and N registers still hold an earlier fraction
C17_Witness ==
    /\ op = "recalc_rate"
    /\ pc = "done"
    /\ ioerr = 0
    /\ arg = MaxParentRate
    /\ rcg.mnd_width # 0
    /\ programmed = TblA[1]
    /\ regmap["M"] \cap MndMask = MVal(TblA[2]) \cap MndMask
    /\ regmap["N"] \cap MndMask = NVal(TblA[2]) \cap MndMask
    /\ ret = MaxParentRate

\* ------------------------------------------------------------ the two rate calls
\* the config register was written with success by the call
ConfigWritten == \E k \in 1..Len(wlog) : wlog[k] = Wrote("CFG", TRUE)

\* What set_rate and set_rate_and_parent do is the same function of the
\* rate, whatever parent_rate and index are: without an entry for the rate
\* -EINVAL and no write; otherwise the first entry E that reaches the rate is
\* chosen and the writes tried are those of the write sequence of E.
SameRateCall ==
    IF NoEntryFor(rcg.freq_tbl, arg)
    THEN ret = -EINVAL /\ wlog = << >>
    ELSE /\ f = rcg.freq_tbl[FirstFor(rcg.freq_tbl, arg)]
         /\ Len(wlog) >= 1
         /\ \A k \in 1..Len(wlog) : wlog[k].reg = WriteOrder(f)[k]
         /\ ret = 0 => \A k \in 1..Len(wlog) : wlog[k].ok

\* C18 as stated: set_rate and set_rate_and_parent make the same writes and
\* return the same result for the same rate, whatever parent_rate and index
\* are, and the select field programmed is parent_map[E.src] of the entry E
\* chosen for the rate, never parent_map[index].
C18_SelectIsMapOfEntry ==
    (op \in RateOps /\ pc = "done") =>
        /\ SameRateCall
        /\ ConfigWritten => SrcSel(regmap["CFG"]) = PM(f.src)

\* C18 amended: the same, the select field programmed being the low three
\* bits of parent_map[E.src], which is parent_map[E.src] when that is at
\* most 7.
C18_RateCallsIgnoreParentArgs ==
    (op \in RateOps /\ pc = "done") =>
        /\ SameRateCall
        /\ ConfigWritten => SrcSel(regmap["CFG"]) = PM(f.src) % 8

\* set_rate_and_parent given parent 0 and a parent rate programs an entry of
\* parent 1
C18_Witness ==
    /\ op = "set_rate_and_parent"
    /\ pc = "done"
    /\ ret = 0
    /\ given.index = 0
    /\ given.parent_rate = 1
    /\ f.src = 1
    /\ PM(0) = 0
    /\ PM(1) = 5
    /\ SrcSel(regmap["CFG"]) = 5

\* ------------------------------------------------------------ the OCM blocks
\* the block numbers (addresses divided by the block size) of the four blocks
BlockAt(k) == (k + (IF k \in ocm_config THEN ZYNQ_OCM_HIGHADDR.hi ELSE 0)) % 2^16
OcmBlocks == { BlockAt(k) : k \in 0..(ZYNQ_OCM_BLOCKS - 1) }
\* the resources the loop has made and the block numbers one spans
Made == 0..(curr - 1)
Spans(r) == res[r].start.hi..res[r].end.hi

\* C19: when the loop is over there are at most 4 resources res[0..curr-1];
\* each ends at the end of a block and spans blocks of the configuration
\* only; every block lies in exactly one of them; no two of them are
\* address-adjacent; and a resource starts at the start of its first block,
\* except that under SMP the resource that begins at address 0x0 starts
\* trampoline_code_size later, and only that one.
C19_OcmResources ==
    (ocm_i = ZYNQ_OCM_BLOCKS) =>
        /\ curr <= ZYNQ_OCM_BLOCKS
        /\ \A r \in Made :
              /\ res[r].end.lo = ZYNQ_OCM_BLOCK_SIZE - 1
              /\ Spans(r) # {}
              /\ Spans(r) \subseteq OcmBlocks
              /\ res[r].start.lo =
                    IF smp /\ res[r].start.hi = 0 THEN trampoline_code_size ELSE 0
        /\ \A b \in OcmBlocks : \E r \in Made :
              /\ b \in Spans(r)
              /\ \A q \in Made : b \in Spans(q) => q = r
        /\ \A r \in Made, q \in Made : res[r].end.hi + 1 # res[q].start.hi

====
